---- MODULE Spec2Model ----
(***************************************************************************)
(* Model of src/script.js: the front-end controller of the compiler        *)
(* pipeline visualizer.  The DOM elements the script reads and writes are  *)
(* the variables; every event handler, promise continuation and timer      *)
(* callback is one action.                                                 *)
(*                                                                         *)
(* Representation.  Source text and identifier names are sequences of      *)
(* one-character strings, so that trim() and split('=') are computed.      *)
(* A symbol table (a JS object) is the sequence of its entries in          *)
(* Object.keys order.  A nullable tree is a sequence of length 0 or 1.     *)
(*                                                                         *)
(* Specifications.  Spec is the controller with all its inputs.            *)
(* SpecPrompt and SpecLayout apply the pure functions to bounded inputs.   *)
(* SpecFollow and SpecLive follow each request from fetch to resolution.   *)
(* SpecOverlay lets the geometry passes of two compiles be pending         *)
(* together.                                                               *)
(***************************************************************************)
EXTENDS Integers, Sequences, FiniteSets, TLC

VARIABLES
    codeInput,           \* codeInput.value
    currentSymbolTable,  \* let currentSymbolTable
    compileDisabled,     \* compileBtn.disabled
    typeSectionDisplay,  \* typeTableSection.style.display
    typeInputs,          \* the <select> elements inside #type-inputs
    tokensOutput,        \* tokensOutput.innerHTML
    symbolTableBody,     \* symbolTableBody.innerHTML
    syntaxTree,          \* #syntax-tree: rendered tree and connector overlays
    semanticTree,        \* #semantic-tree
    icgOutput,           \* icgOutput.textContent
    optimizedOutput,     \* optimizedOutput.textContent
    assemblyOutput,      \* assemblyOutput.textContent
    errorDisplay,        \* errorDisplay: style.display and textContent
    inflight,            \* requests sent to the service and not yet resolved
    timers,              \* pending setTimeout callbacks, in firing order
    phase,               \* history: the pipeline state of spec section 4.4
    lastOp,              \* history: the handler that ran last and what it saw
    call                 \* argument and result of a pure function under test

vars == <<codeInput, currentSymbolTable, compileDisabled, typeSectionDisplay,
          typeInputs, tokensOutput, symbolTableBody, syntaxTree, semanticTree,
          icgOutput, optimizedOutput, assemblyOutput, errorDisplay, inflight,
          timers, phase, lastOp, call>>

-----------------------------------------------------------------------------
(* Bounds of the model.                                                    *)

MaxInFlight == 2

MaxTimers == 2

-----------------------------------------------------------------------------
(* Strings: String.prototype.trim and split('=')[0].                       *)

IsSpace(c) == c = " "

RECURSIVE TrimStart(_)
TrimStart(s) ==
    IF s = <<>> THEN <<>>
    ELSE IF IsSpace(Head(s)) THEN TrimStart(Tail(s)) ELSE s

RECURSIVE TrimEnd(_)
TrimEnd(s) ==
    IF s = <<>> THEN <<>>
    ELSE IF IsSpace(s[Len(s)]) THEN TrimEnd(SubSeq(s, 1, Len(s) - 1)) ELSE s

Trim(s) == TrimEnd(TrimStart(s))

\* code.split('=')[0]: the text before the first '=', all of it when none.
RECURSIVE BeforeFirstEq(_)
BeforeFirstEq(s) ==
    IF s = <<>> THEN <<>>
    ELSE IF Head(s) = "=" THEN <<>>
    ELSE <<Head(s)>> \o BeforeFirstEq(Tail(s))

\* instructions.join('\n')
RECURSIVE Join(_)
Join(lines) ==
    IF lines = <<>> THEN ""
    ELSE IF Len(lines) = 1 THEN lines[1]
    ELSE lines[1] \o "\n" \o Join(Tail(lines))

-----------------------------------------------------------------------------
(* TypeTablePrompt: the part of showTypeInputs that derives the prompts.   *)

\* Object.keys(symbolTable)
Keys(symbolTable) == [i \in 1..Len(symbolTable) |-> symbolTable[i].name]

\* const assignedVar = code.split('=')[0].trim(), code the trimmed input
assignedVar(value) == Trim(BeforeFirstEq(Trim(value)))

\* Faulty variant of inputVariables: the first key is taken to be the
\* assigned variable.
inputVariablesButFirst(symbolTable, value) ==
    IF symbolTable = <<>> THEN <<>> ELSE Tail(Keys(symbolTable))

\* variables.filter(v => v !== assignedVar)
inputVariables(symbolTable, value) ==
    SelectSeq(Keys(symbolTable), LAMBDA v : v # assignedVar(value))

\* The <select> elements showTypeInputs writes: the first option, int, is
\* the selected one in a freshly written <select>.
TypeSelects(names) == [i \in 1..Len(names) |-> [name |-> names[i], value |-> "int"]]

\* document.getElementById(`type-${varName}`): the first match, if any.
SelectsNamed(selects, varName) == SelectSeq(selects, LAMBDA e : e.name = varName)

RECURSIVE collectTypes(_, _)
collectTypes(names, selects) ==
    IF names = <<>> THEN <<>>
    ELSE LET found == SelectsNamed(selects, Head(names))
         IN  (IF found = <<>> THEN <<>>
              ELSE <<[name |-> Head(names), type |-> found[1].value]>>)
             \o collectTypes(Tail(names), selects)

getTypeTable(symbolTable, selects) == collectTypes(Keys(symbolTable), selects)

-----------------------------------------------------------------------------
(* Display functions of the flat artifacts.                                *)

TokensPlaceholder == [placeholder |-> TRUE, spans |-> <<>>]

displayTokens(tokens) ==
    [placeholder |-> FALSE,
     spans |-> [i \in 1..Len(tokens) |-> <<tokens[i].type, tokens[i].original>>]]

\* Object.entries(symbolTable).map(([name, id]) => <tr>...): one row per entry
displaySymbolTable(symbolTable) ==
    [i \in 1..Len(symbolTable) |-> <<symbolTable[i].name, symbolTable[i].id>>]

displayICG(instructions) == Join(instructions)

displayOptimized(instructions) == Join(instructions)

displayAssembly(instructions) == Join(instructions)

IcgPlaceholder == "Compile to see intermediate code..."

OptimizedPlaceholder == "Compile to see optimized code..."

AssemblyPlaceholder == "Compile to see assembly code..."

-----------------------------------------------------------------------------
(* TreeLayoutEngine: buildTreeHTML.  The result is the sequence of the     *)
(* .tree-node elements produced: empty for a null node, one otherwise.     *)

\* Faulty variant of nodeClass: any type_info marks the node as coerced.
nodeClassAnyInfo(node, showCoercion) ==
    {"tree-node-value"}
    \cup (IF node.node_type \in {"OP", "ASSIGN"} THEN {"operator"}
          ELSE IF node.node_type = "ID" THEN {"id"}
          ELSE IF node.node_type = "NUMBER" THEN {"number"}
          ELSE {})
    \cup (IF showCoercion /\ node.type_info # "" THEN {"coerced"} ELSE {})

nodeClass(node, showCoercion) ==
    {"tree-node-value"}
    \cup (IF node.node_type \in {"OP", "ASSIGN"} THEN {"operator"}
          ELSE IF node.node_type = "ID" THEN {"id"}
          ELSE IF node.node_type = "NUMBER" THEN {"number"}
          ELSE {})
    \cup (IF showCoercion /\ node.type_info = "int to float" THEN {"coerced"} ELSE {})

\* Faulty variant of displayValue: original_name is not looked at.
displayValueOfValue(node, showCoercion) ==
    node.value
    \o (IF showCoercion /\ node.type_info = "int to float" THEN " ->float" ELSE "")

\* The suffix is the source's ' \u2192float', written here in ASCII.
displayValue(node, showCoercion) ==
    (IF node.node_type = "ID" /\ node.original_name # "" THEN node.original_name
     ELSE node.value)
    \o (IF showCoercion /\ node.type_info = "int to float" THEN " ->float" ELSE "")

RECURSIVE buildTreeHTML(_, _)
buildTreeHTML(tree, showCoercion) ==
    IF tree = <<>> THEN <<>>
    ELSE LET node == tree[1]
         IN  <<[class    |-> nodeClass(node, showCoercion),
                value    |-> displayValue(node, showCoercion),
                children |-> buildTreeHTML(node.left, showCoercion)
                             \o buildTreeHTML(node.right, showCoercion)]>>

-----------------------------------------------------------------------------
(* ConnectorGeometry: drawTreeLines.  A label box is named by the path of  *)
(* child positions leading to it; a line is the pair of the two boxes     *)
(* whose anchors it joins.                                                 *)

\* The label boxes below a rendered node, in document order.
RECURSIVE boxesBelow(_, _)
boxesBelow(node, path) ==
    LET n == Len(node.children)
        sub[i \in 0..n] ==
            IF i = 0 THEN <<>>
            ELSE sub[i - 1] \o <<Append(path, i)>>
                 \o boxesBelow(node.children[i], Append(path, i))
    IN  sub[n]

\* Faulty variant of treeLines: the children of a node are selected without
\* ':scope >', which matches the label boxes of all its descendants.
RECURSIVE treeLinesToDescendants(_, _)
treeLinesToDescendants(rendered, path) ==
    IF rendered = <<>> THEN <<>>
    ELSE LET node == rendered[1]
             n    == Len(node.children)
             below == boxesBelow(node, path)
             own  == [i \in 1..Len(below) |-> <<path, below[i]>>]
             sub[i \in 0..n] ==
                 IF i = 0 THEN <<>>
                 ELSE sub[i - 1]
                      \o treeLinesToDescendants(<<node.children[i]>>, Append(path, i))
         IN  own \o sub[n]

\* container.querySelectorAll('.tree-node') visits the nodes in document
\* order; the lines of a node precede those of its descendants.
RECURSIVE treeLines(_, _)
treeLines(rendered, path) ==
    IF rendered = <<>> THEN <<>>
    ELSE LET node == rendered[1]
             n    == Len(node.children)
             own  == [i \in 1..n |-> <<path, Append(path, i)>>]
             sub[i \in 0..n] ==
                 IF i = 0 THEN <<>>
                 ELSE sub[i - 1] \o treeLines(<<node.children[i]>>, Append(path, i))
         IN  own \o sub[n]

TreePlaceholder == [placeholder |-> TRUE, nodes |-> <<>>, svg |-> <<>>]

\* container.innerHTML = buildTreeHTML(tree, showCoercion)
renderTree(tree, showCoercion) ==
    [placeholder |-> FALSE, nodes |-> buildTreeHTML(tree, showCoercion), svg |-> <<>>]

\* Faulty variant of drawTreeLines: the existing overlay is not removed.
drawTreeLinesOver(container) ==
    [container EXCEPT
        !.svg = <<treeLines(container.nodes, <<>>)>> \o container.svg]

drawTreeLines(container) ==
    [container EXCEPT
        !.svg = <<treeLines(container.nodes, <<>>)>>
                \o (IF container.svg = <<>> THEN <<>> ELSE Tail(container.svg))]

-----------------------------------------------------------------------------
(* Error display.                                                          *)

\* The source prefixes the message with a cross mark and 'Error: '.
showError(message) == [display |-> "block", text |-> "Error: " \o message]

hideError(shown) == [shown EXCEPT !.display = "none"]

\* data.detail || data.error || generic
ErrorMessage(data, generic) ==
    IF data.detail # "" THEN data.detail
    ELSE IF data.error # "" THEN data.error
    ELSE generic

-----------------------------------------------------------------------------
(* Inputs: what the user can type and what the service can answer.         *)

nx == <<"x">>

na == <<"a">>

nb == <<"b">>

SrcBlank == <<" ", " ">>

SrcSum == <<"x", " ", "=", " ", "a", "+", "1">>

SrcA == <<" ", "a", "=", "2">>

Sources == {SrcBlank, SrcSum, SrcA}

Token(type, original) == [type |-> type, original |-> original]

Entry(name, id) == [name |-> name, id |-> id]

LexSum ==
    [tokens |-> <<Token("ID", "x"), Token("ASSIGN", "="), Token("ID", "a"),
                  Token("OP", "+"), Token("NUMBER", "1")>>,
     symbol_table |-> <<Entry(nx, 1), Entry(na, 2)>>]

LexA ==
    [tokens |-> <<Token("ID", "a"), Token("ASSIGN", "="), Token("NUMBER", "2")>>,
     symbol_table |-> <<Entry(na, 1)>>]

\* Successful responses of the lexical endpoint.
LexicalResults == {LexSum, LexA}

Leaf(type, value, original, info) ==
    [node_type |-> type, value |-> value, original_name |-> original,
     type_info |-> info, left |-> <<>>, right |-> <<>>]

Inner(type, value, info, left, right) ==
    [node_type |-> type, value |-> value, original_name |-> "",
     type_info |-> info, left |-> <<left>>, right |-> <<right>>]

CompSum ==
    [lexical |-> LexSum,
     syntax_tree |-> <<Inner("ASSIGN", "=", "",
                         Leaf("ID", "id1", "x", ""),
                         Inner("OP", "+", "",
                               Leaf("ID", "id2", "a", ""),
                               Leaf("NUMBER", "1", "", "")))>>,
     semantic_tree |-> <<Inner("ASSIGN", "=", "",
                           Leaf("ID", "id1", "x", ""),
                           Inner("OP", "+", "",
                                 Leaf("ID", "id2", "a", "int to float"),
                                 Leaf("NUMBER", "1", "", "")))>>,
     intermediate_code |-> <<"t1 = id2 + 1", "id1 = t1">>,
     optimized_code |-> <<"id1 = id2 + 1">>,
     assembly_code |-> <<"LOAD id2", "ADD 1", "STORE id1">>]

CompA ==
    [lexical |-> LexA,
     syntax_tree |-> <<Inner("ASSIGN", "=", "",
                         Leaf("ID", "id1", "a", ""),
                         Leaf("NUMBER", "2", "", ""))>>,
     semantic_tree |-> <<Inner("ASSIGN", "=", "",
                           Leaf("ID", "id1", "a", ""),
                           Leaf("NUMBER", "2", "", ""))>>,
     intermediate_code |-> <<"id1 = 2">>,
     optimized_code |-> <<>>,
     assembly_code |-> <<"MOV id1, 2">>]

\* Successful responses of the compile endpoint.
CompileResults == {CompSum, CompA}

\* Responses with success: false.
ServiceFailures == {[detail |-> "", error |-> "Invalid syntax"]}

\* error.message of a rejected fetch or of a body that is not JSON.
TransportFailures == {"Failed to fetch"}

TypeNames == {"int", "float"}

-----------------------------------------------------------------------------
(* State after the page has loaded.                                        *)

\* The markup the script is loaded into: nothing typed, compile disabled,
\* type prompts hidden and empty, no error shown.
Markup ==
    [codeInput          |-> <<>>,
     compileDisabled    |-> TRUE,
     typeSectionDisplay |-> "none",
     typeInputs         |-> <<>>,
     errorDisplay       |-> [display |-> "none", text |-> ""]]

Artifacts == <<tokensOutput, symbolTableBody, syntaxTree, semanticTree,
               icgOutput, optimizedOutput, assemblyOutput>>

\* Everything but the source input and the error display.
Frame ==
    [artifacts |-> Artifacts,
     table     |-> currentSymbolTable,
     display   |-> typeSectionDisplay,
     selects   |-> typeInputs,
     disabled  |-> compileDisabled,
     phase     |-> phase]

\* History record of a handler run.
Op(name) ==
    [op   |-> name,   \* the handler
     sent |-> <<>>,   \* the request body it sent, if any
     data |-> <<>>,   \* the successful response it applied, if any
     idx  |-> 0,      \* analyze: position of the resolved request in flight
     ovl  |-> "none", \* analyze: an overlapping analyze resolved just before
     prev |-> <<>>,   \* the response, or the overlay, this one replaced
     snap |-> <<>>,   \* Frame before the operation
     from |-> ""]     \* phase before the handler ran

InitPage ==
    /\ codeInput = Markup.codeInput
    /\ currentSymbolTable = <<>>
    /\ compileDisabled = Markup.compileDisabled
    /\ typeSectionDisplay = Markup.typeSectionDisplay
    /\ typeInputs = Markup.typeInputs
    /\ tokensOutput = TokensPlaceholder
    /\ symbolTableBody = <<>>
    /\ syntaxTree = TreePlaceholder
    /\ semanticTree = TreePlaceholder
    /\ icgOutput = IcgPlaceholder
    /\ optimizedOutput = OptimizedPlaceholder
    /\ assemblyOutput = AssemblyPlaceholder
    /\ errorDisplay = Markup.errorDisplay
    /\ inflight = <<>>
    /\ timers = <<>>
    /\ phase = "Idle"
    /\ lastOp = Op("load")

Init ==
    /\ InitPage
    /\ call = <<>>

-----------------------------------------------------------------------------
(* Handlers.                                                               *)

\* Faulty variant of clearOutputs: the two tree views are not cleared.
clearOutputsButTrees ==
    /\ tokensOutput' = TokensPlaceholder
    /\ symbolTableBody' = <<>>
    /\ icgOutput' = IcgPlaceholder
    /\ optimizedOutput' = OptimizedPlaceholder
    /\ assemblyOutput' = AssemblyPlaceholder
    /\ UNCHANGED <<syntaxTree, semanticTree>>

clearOutputs ==
    /\ tokensOutput' = TokensPlaceholder
    /\ symbolTableBody' = <<>>
    /\ syntaxTree' = TreePlaceholder
    /\ semanticTree' = TreePlaceholder
    /\ icgOutput' = IcgPlaceholder
    /\ optimizedOutput' = OptimizedPlaceholder
    /\ assemblyOutput' = AssemblyPlaceholder

\* The specifications that follow single requests set call to this record;
\* only they keep the identity and the body of a request in flight.
Following == [follow |-> TRUE]

Followed == call = Following

\* History: a name no request in flight bears.
NewId == CHOOSE n \in 1..MaxInFlight : \A i \in 1..Len(inflight) : inflight[i].id # n

\* A pending call of analyzeLexical or compile, suspended at its await.
Pending(kind, code) ==
    [kind  |-> kind,
     stale |-> FALSE,   \* history: a reset() ran after it was sent
     id    |-> IF Followed THEN NewId ELSE 0,      \* history: its identity
     code  |-> IF Followed THEN code ELSE <<>>]    \* body.code of the request

Remove(q, i) == SubSeq(q, 1, i - 1) \o SubSeq(q, i + 1, Len(q))

\* Faulty variant of trimmedCode: the input is not trimmed.
untrimmedCode(value) == value

\* const code = codeInput.value.trim()

trimmedCode(value) == Trim(value)

\* The user edits the source input.
setInput(s) ==
    /\ s # codeInput
    /\ codeInput' = s
    /\ lastOp' = Op("input")
    /\ UNCHANGED <<currentSymbolTable, compileDisabled, typeSectionDisplay,
                   typeInputs, tokensOutput, symbolTableBody, syntaxTree,
                   semanticTree, icgOutput, optimizedOutput, assemblyOutput,
                   errorDisplay, inflight, timers, phase, call>>

\* The user picks a type in one of the visible prompts.
selectType(k, t) ==
    /\ typeSectionDisplay = "block"
    /\ typeInputs[k].value # t
    /\ typeInputs' = [typeInputs EXCEPT ![k].value = t]
    /\ lastOp' = Op("select")
    /\ UNCHANGED <<codeInput, currentSymbolTable, compileDisabled,
                   typeSectionDisplay, tokensOutput, symbolTableBody, syntaxTree,
                   semanticTree, icgOutput, optimizedOutput, assemblyOutput,
                   errorDisplay, inflight, timers, phase, call>>

\* analyzeLexical up to its first await: click on Analyze, or Enter.
analyzeLexical ==
    LET code == trimmedCode(codeInput)
    IN  IF code = <<>>
        THEN /\ errorDisplay' = showError("Please enter some code to analyze.")
             /\ lastOp' = Op("analyzeRejected")
             /\ UNCHANGED <<codeInput, currentSymbolTable, compileDisabled,
                            typeSectionDisplay, typeInputs, tokensOutput,
                            symbolTableBody, syntaxTree, semanticTree, icgOutput,
                            optimizedOutput, assemblyOutput, inflight, timers,
                            phase, call>>
        ELSE /\ Len(inflight) < MaxInFlight
             /\ errorDisplay' = hideError(errorDisplay)
             /\ clearOutputs
             /\ inflight' = Append(inflight, Pending("lexical", code))
             /\ lastOp' = [Op("analyze") EXCEPT
                             !.sent = <<[code |-> code]>>, !.snap = <<Frame>>]
             /\ UNCHANGED <<codeInput, currentSymbolTable, compileDisabled,
                            typeSectionDisplay, typeInputs, timers, phase, call>>

\* showTypeInputs(symbolTable)
showTypeInputs(symbolTable) ==
    LET names == inputVariables(symbolTable, codeInput)
    IN  IF names = <<>>
        THEN /\ typeSectionDisplay' = "none"
             /\ UNCHANGED typeInputs
        ELSE /\ typeInputs' = TypeSelects(names)
             /\ typeSectionDisplay' = "block"

\* History of a resolved request: whether the handler that ran just before
\* was the successful resolution of an analyze that was in flight with it.
Overlap(i) ==
    IF lastOp.op = "analyzeSucceeded"
    THEN IF i < lastOp.idx THEN "issuedBefore" ELSE "issuedAfter"
    ELSE "none"

\* History of a failed request: Frame before the operation when nothing ran
\* between its two steps, Frame before the failure was applied otherwise.
SnapAt(i, invoked) ==
    IF lastOp.op = invoked /\ i = Len(inflight) THEN lastOp.snap ELSE <<Frame>>

\* History of a resolved request: the body it was sent with, where kept.
Answered(i) == IF Followed THEN <<[code |-> inflight[i].code]>> ELSE <<>>

\* Faulty variant of analyzeSucceeded: the response of a request is dropped
\* when a request sent after it has already resolved.
analyzeSucceededUnlessOutdated(i, data) ==
    /\ inflight[i].kind = "lexical"
    /\ IF Overlap(i) # "issuedBefore"
       THEN /\ tokensOutput' = displayTokens(data.tokens)
            /\ symbolTableBody' = displaySymbolTable(data.symbol_table)
            /\ currentSymbolTable' = data.symbol_table
            /\ showTypeInputs(data.symbol_table)
            /\ compileDisabled' = FALSE
       ELSE UNCHANGED <<tokensOutput, symbolTableBody, currentSymbolTable,
                        typeInputs, typeSectionDisplay, compileDisabled>>
    /\ inflight' = Remove(inflight, i)
    /\ phase' = IF inflight[i].stale THEN phase ELSE "Analyzed"
    /\ lastOp' = [Op("analyzeSucceeded") EXCEPT
                    !.data = <<data>>, !.idx = i, !.ovl = Overlap(i),
                    !.from = phase, !.sent = Answered(i),
                    !.prev = IF Overlap(i) = "none" THEN <<>> ELSE lastOp.data]
    /\ UNCHANGED <<codeInput, syntaxTree, semanticTree, icgOutput,
                   optimizedOutput, assemblyOutput, errorDisplay, timers, call>>

\* analyzeLexical resumed with a response that has success: true.
analyzeSucceeded(i, data) ==
    /\ inflight[i].kind = "lexical"
    /\ tokensOutput' = displayTokens(data.tokens)
    /\ symbolTableBody' = displaySymbolTable(data.symbol_table)
    /\ currentSymbolTable' = data.symbol_table
    /\ showTypeInputs(data.symbol_table)
    /\ compileDisabled' = FALSE
    /\ inflight' = Remove(inflight, i)
    /\ phase' = IF inflight[i].stale THEN phase ELSE "Analyzed"
    /\ lastOp' = [Op("analyzeSucceeded") EXCEPT
                    !.data = <<data>>, !.idx = i, !.ovl = Overlap(i),
                    !.from = phase, !.sent = Answered(i),
                    !.prev = IF Overlap(i) = "none" THEN <<>> ELSE lastOp.data]
    /\ UNCHANGED <<codeInput, syntaxTree, semanticTree, icgOutput,
                   optimizedOutput, assemblyOutput, errorDisplay, timers, call>>

\* analyzeLexical resumed with a response that has success: false.
analyzeFailed(i, data) ==
    /\ inflight[i].kind = "lexical"
    /\ errorDisplay' = showError(ErrorMessage(data, "Analysis failed"))
    /\ inflight' = Remove(inflight, i)
    /\ lastOp' = [Op("analyzeFailed") EXCEPT !.snap = SnapAt(i, "analyze")]
    /\ UNCHANGED <<codeInput, currentSymbolTable, compileDisabled,
                   typeSectionDisplay, typeInputs, tokensOutput, symbolTableBody,
                   syntaxTree, semanticTree, icgOutput, optimizedOutput,
                   assemblyOutput, timers, phase, call>>

\* analyzeLexical resumed in its catch block.
analyzeThrew(i, message) ==
    /\ inflight[i].kind = "lexical"
    /\ errorDisplay' = showError("Error connecting to API: " \o message)
    /\ inflight' = Remove(inflight, i)
    /\ lastOp' = [Op("analyzeThrew") EXCEPT !.snap = SnapAt(i, "analyze")]
    /\ UNCHANGED <<codeInput, currentSymbolTable, compileDisabled,
                   typeSectionDisplay, typeInputs, tokensOutput, symbolTableBody,
                   syntaxTree, semanticTree, icgOutput, optimizedOutput,
                   assemblyOutput, timers, phase, call>>

\* Faulty variant of compile: compile clears the outputs before the
\* request, as analyzeLexical does.
compileClearing ==
    /\ ~compileDisabled
    /\ Len(inflight) < MaxInFlight
    /\ errorDisplay' = hideError(errorDisplay)
    /\ clearOutputs
    /\ inflight' = Append(inflight, Pending("compile", trimmedCode(codeInput)))
    /\ lastOp' = [Op("compile") EXCEPT
                    !.sent = <<[code |-> trimmedCode(codeInput),
                                type_table |-> getTypeTable(currentSymbolTable,
                                                            typeInputs)]>>,
                    !.snap = <<Frame>>, !.from = phase]
    /\ UNCHANGED <<codeInput, currentSymbolTable, compileDisabled,
                   typeSectionDisplay, typeInputs, timers, phase, call>>

\* compile up to its first await: click on the enabled Compile button.
compile ==
    /\ ~compileDisabled
    /\ Len(inflight) < MaxInFlight
    /\ errorDisplay' = hideError(errorDisplay)
    /\ inflight' = Append(inflight, Pending("compile", trimmedCode(codeInput)))
    /\ lastOp' = [Op("compile") EXCEPT
                    !.sent = <<[code |-> trimmedCode(codeInput),
                                type_table |-> getTypeTable(currentSymbolTable,
                                                            typeInputs)]>>,
                    !.snap = <<Frame>>, !.from = phase]
    /\ UNCHANGED <<codeInput, currentSymbolTable, compileDisabled,
                   typeSectionDisplay, typeInputs, tokensOutput, symbolTableBody,
                   syntaxTree, semanticTree, icgOutput, optimizedOutput,
                   assemblyOutput, timers, phase, call>>

\* Faulty variant of displayAll: an empty optimized listing is not
\* displayed, which leaves the listing of an earlier response in place.
displayAllNonEmpty(data) ==
    /\ tokensOutput' = displayTokens(data.lexical.tokens)
    /\ symbolTableBody' = displaySymbolTable(data.lexical.symbol_table)
    /\ syntaxTree' = renderTree(data.syntax_tree, FALSE)
    /\ semanticTree' = renderTree(data.semantic_tree, TRUE)
    /\ icgOutput' = displayICG(data.intermediate_code)
    /\ optimizedOutput' = IF data.optimized_code = <<>> THEN optimizedOutput
                          ELSE displayOptimized(data.optimized_code)
    /\ assemblyOutput' = displayAssembly(data.assembly_code)

\* Faulty variant of displayAll: the syntax tree is rendered beside the
\* connector overlay of the container instead of replacing its content.
displayAllBesideOverlay(data) ==
    /\ tokensOutput' = displayTokens(data.lexical.tokens)
    /\ symbolTableBody' = displaySymbolTable(data.lexical.symbol_table)
    /\ syntaxTree' = [renderTree(data.syntax_tree, FALSE) EXCEPT
                         !.svg = syntaxTree.svg]
    /\ semanticTree' = renderTree(data.semantic_tree, TRUE)
    /\ icgOutput' = displayICG(data.intermediate_code)
    /\ optimizedOutput' = displayOptimized(data.optimized_code)
    /\ assemblyOutput' = displayAssembly(data.assembly_code)

\* The seven display calls of compile, lines 94 to 100.
displayAll(data) ==
    /\ tokensOutput' = displayTokens(data.lexical.tokens)
    /\ symbolTableBody' = displaySymbolTable(data.lexical.symbol_table)
    /\ syntaxTree' = renderTree(data.syntax_tree, FALSE)
    /\ semanticTree' = renderTree(data.semantic_tree, TRUE)
    /\ icgOutput' = displayICG(data.intermediate_code)
    /\ optimizedOutput' = displayOptimized(data.optimized_code)
    /\ assemblyOutput' = displayAssembly(data.assembly_code)

\* The five artifacts only a compile displays, as rendered from one response.
CompileOnly(data) ==
    /\ syntaxTree.nodes = buildTreeHTML(data.syntax_tree, FALSE)
    /\ semanticTree.nodes = buildTreeHTML(data.semantic_tree, TRUE)
    /\ ~syntaxTree.placeholder /\ ~semanticTree.placeholder
    /\ icgOutput = Join(data.intermediate_code)
    /\ optimizedOutput = Join(data.optimized_code)
    /\ assemblyOutput = Join(data.assembly_code)

\* History: the compile response whose artifacts are on display, if any.
Compiled ==
    IF \E data \in CompileResults : CompileOnly(data)
    THEN <<CHOOSE data \in CompileResults : CompileOnly(data)>>
    ELSE <<>>

\* compile resumed with a response that has success: true.  displaySyntaxTree
\* and displaySemanticTree each leave a drawTreeLines callback pending.
compileSucceeded(i, data) ==
    /\ inflight[i].kind = "compile"
    /\ displayAll(data)
    /\ timers' = timers \o <<"syntax", "semantic">>
    /\ inflight' = Remove(inflight, i)
    /\ phase' = IF inflight[i].stale \/ phase = "Idle" THEN phase ELSE "Compiled"
    /\ lastOp' = [Op("compileSucceeded") EXCEPT
                    !.data = <<data>>, !.from = phase,
                    !.prev = Compiled]
    /\ UNCHANGED <<codeInput, currentSymbolTable, compileDisabled,
                   typeSectionDisplay, typeInputs, errorDisplay, call>>

\* compile resumed with a response that has success: false.
compileFailed(i, data) ==
    /\ inflight[i].kind = "compile"
    /\ errorDisplay' = showError(ErrorMessage(data, "Compilation failed"))
    /\ inflight' = Remove(inflight, i)
    /\ lastOp' = [Op("compileFailed") EXCEPT !.snap = SnapAt(i, "compile")]
    /\ UNCHANGED <<codeInput, currentSymbolTable, compileDisabled,
                   typeSectionDisplay, typeInputs, tokensOutput, symbolTableBody,
                   syntaxTree, semanticTree, icgOutput, optimizedOutput,
                   assemblyOutput, timers, phase, call>>

\* compile resumed in its catch block.
compileThrew(i, message) ==
    /\ inflight[i].kind = "compile"
    /\ errorDisplay' = showError("Error connecting to API: " \o message)
    /\ inflight' = Remove(inflight, i)
    /\ lastOp' = [Op("compileThrew") EXCEPT !.snap = SnapAt(i, "compile")]
    /\ UNCHANGED <<codeInput, currentSymbolTable, compileDisabled,
                   typeSectionDisplay, typeInputs, tokensOutput, symbolTableBody,
                   syntaxTree, semanticTree, icgOutput, optimizedOutput,
                   assemblyOutput, timers, phase, call>>

\* The callback () => drawTreeLines(container) of the oldest pending timer.
timerFired ==
    /\ timers # <<>>
    /\ IF Head(timers) = "syntax"
       THEN syntaxTree' = drawTreeLines(syntaxTree) /\ UNCHANGED semanticTree
       ELSE semanticTree' = drawTreeLines(semanticTree) /\ UNCHANGED syntaxTree
    /\ timers' = Tail(timers)
    /\ lastOp' = [Op("timer") EXCEPT
                    !.prev = IF Head(timers) = "syntax" THEN syntaxTree.svg
                             ELSE semanticTree.svg]
    /\ UNCHANGED <<codeInput, currentSymbolTable, compileDisabled,
                   typeSectionDisplay, typeInputs, tokensOutput, symbolTableBody,
                   icgOutput, optimizedOutput, assemblyOutput, errorDisplay,
                   inflight, phase, call>>

\* Faulty variant of reset: the requests in flight are aborted.
resetAborting ==
    /\ codeInput' = <<>>
    /\ currentSymbolTable' = <<>>
    /\ typeSectionDisplay' = "none"
    /\ typeInputs' = <<>>
    /\ compileDisabled' = TRUE
    /\ clearOutputs
    /\ errorDisplay' = hideError(errorDisplay)
    /\ inflight' = <<>>
    /\ phase' = "Idle"
    /\ lastOp' = [Op("reset") EXCEPT !.from = phase]
    /\ UNCHANGED <<timers, call>>

\* reset: click on Reset.  Requests in flight and pending timers stay.
reset ==
    /\ codeInput' = <<>>
    /\ currentSymbolTable' = <<>>
    /\ typeSectionDisplay' = "none"
    /\ typeInputs' = <<>>
    /\ compileDisabled' = TRUE
    /\ clearOutputs
    /\ errorDisplay' = hideError(errorDisplay)
    /\ inflight' = [i \in 1..Len(inflight) |-> [inflight[i] EXCEPT !.stale = TRUE]]
    /\ phase' = "Idle"
    /\ lastOp' = [Op("reset") EXCEPT !.from = phase]
    /\ UNCHANGED <<timers, call>>

Next ==
    \/ \E s \in Sources : setInput(s)
    \/ \E k \in 1..Len(typeInputs), t \in TypeNames : selectType(k, t)
    \/ analyzeLexical
    \/ \E i \in 1..Len(inflight), data \in LexicalResults : analyzeSucceeded(i, data)
    \/ \E i \in 1..Len(inflight), data \in ServiceFailures : analyzeFailed(i, data)
    \/ \E i \in 1..Len(inflight), m \in TransportFailures : analyzeThrew(i, m)
    \/ compile
    \/ \E i \in 1..Len(inflight), data \in CompileResults :
          Len(timers) + 2 <= MaxTimers /\ compileSucceeded(i, data)
    \/ \E i \in 1..Len(inflight), data \in ServiceFailures : compileFailed(i, data)
    \/ \E i \in 1..Len(inflight), m \in TransportFailures : compileThrew(i, m)
    \/ timerFired
    \/ reset

Spec == Init /\ [][Next]_vars

-----------------------------------------------------------------------------
(* TypeTablePrompt as a pure function: requiredInputs applied to bounded   *)
(* symbol tables and source texts.                                         *)

MaxTableLen == 3

PromptNames == {nx, na, nb, <<"y", "1">>}

\* Symbol tables of at most MaxTableLen entries with distinct names.
TablesOfLen(n) ==
    {[i \in 1..n |-> Entry(f[i], i - 1)] :
        f \in {g \in [1..n -> PromptNames] : \A j, k \in 1..n : g[j] = g[k] => j = k}}

PromptTables == UNION {TablesOfLen(n) : n \in 0..MaxTableLen}

SrcExample == <<"x", " ", "=", " ", "a", " ", "+", " ", "b">>

PromptTexts ==
    {SrcExample, SrcSum, SrcA, SrcBlank, <<>>, <<"b">>,
     <<"y", "1", " ", "=", "x", "=", "a">>, <<"=", "x">>, <<"a", " ", "b", "=", "x">>}

InitPrompt ==
    /\ InitPage
    /\ call \in [symbolTable : PromptTables, sourceText : PromptTexts,
                 result : {<<>>}, done : {FALSE}]

\* requiredInputs(symbolTable, sourceText): the list showTypeInputs prompts for.
requiredInputs ==
    /\ ~call.done
    /\ call' = [call EXCEPT
                  !.result = inputVariables(call.symbolTable, call.sourceText),
                  !.done = TRUE]
    /\ UNCHANGED <<codeInput, currentSymbolTable, compileDisabled,
                   typeSectionDisplay, typeInputs, tokensOutput, symbolTableBody,
                   syntaxTree, semanticTree, icgOutput, optimizedOutput,
                   assemblyOutput, errorDisplay, inflight, timers, phase, lastOp>>

NextPrompt == requiredInputs

SpecPrompt == InitPrompt /\ [][NextPrompt]_vars

-----------------------------------------------------------------------------
(* TreeLayoutEngine and ConnectorGeometry as pure functions: one tree is   *)
(* rendered into a container, then its connectors are drawn.               *)

NodeKinds == {"OP", "ASSIGN", "ID", "NUMBER", "PAREN"}

TypeInfos == {"", "int to float", "float to int"}

Node(type, value, original, info, left, right) ==
    [node_type |-> type, value |-> value, original_name |-> original,
     type_info |-> info, left |-> left, right |-> right]

\* The operands of the trees laid out.
LayoutLeaves ==
    {Leaf("ID", "id2", "a", "int to float"), Leaf("NUMBER", "1", "", ""),
     Leaf("NUMBER", "2", "", "int to float")}

\* A missing child, or a leaf.
MaybeLeaf == {<<>>} \cup {<<l>> : l \in LayoutLeaves}

\* The subtrees of the trees laid out: a leaf, or an operator over at most
\* two leaves.
LayoutSubtrees ==
    LayoutLeaves
    \cup {Node("OP", "+", "", "", l, r) : l \in MaybeLeaf, r \in MaybeLeaf}

MaybeSubtree == {<<>>} \cup {<<t>> : t \in LayoutSubtrees}

\* The trees laid out: the null tree, and a root of every kind, with and
\* without an original name, with every type_info, over at most two subtrees.
LayoutTrees ==
    {<<>>}
    \cup {<<Node(k, "id1", o, i, l, r)>> :
            k \in NodeKinds, o \in {"", "x"}, i \in TypeInfos,
            l \in MaybeSubtree, r \in MaybeSubtree}

InitLayout ==
    /\ InitPage
    /\ call \in [tree : LayoutTrees, annotateCoercion : BOOLEAN,
                 container : {TreePlaceholder}, stage : {"given"}]

\* layout(node, annotateCoercion), committed to a container as
\* displaySyntaxTree and displaySemanticTree do.
layout ==
    /\ call.stage = "given"
    /\ call' = [call EXCEPT
                  !.container = renderTree(call.tree, call.annotateCoercion),
                  !.stage = "rendered"]
    /\ UNCHANGED <<codeInput, currentSymbolTable, compileDisabled,
                   typeSectionDisplay, typeInputs, tokensOutput, symbolTableBody,
                   syntaxTree, semanticTree, icgOutput, optimizedOutput,
                   assemblyOutput, errorDisplay, inflight, timers, phase, lastOp>>

\* computeEdges(renderedContainer): the deferred drawTreeLines(container).
computeEdges ==
    /\ call.stage = "rendered"
    /\ call' = [call EXCEPT
                  !.container = drawTreeLines(call.container),
                  !.stage = "drawn"]
    /\ UNCHANGED <<codeInput, currentSymbolTable, compileDisabled,
                   typeSectionDisplay, typeInputs, tokensOutput, symbolTableBody,
                   syntaxTree, semanticTree, icgOutput, optimizedOutput,
                   assemblyOutput, errorDisplay, inflight, timers, phase, lastOp>>

NextLayout == layout \/ computeEdges

SpecLayout == InitLayout /\ [][NextLayout]_vars

-----------------------------------------------------------------------------
(* The controller with every request followed from fetch to resolution:    *)
(* a request in flight keeps its identity and the code it was sent with.   *)

FollowSources == {SrcSum, SrcA}

\* The successful responses followed: those to the first of the sources.
LiveLexical == {LexSum}

LiveCompile == {CompSum}

InitFollow ==
    /\ InitPage
    /\ call = Following

\* The response of the request at position i arrives, or its fetch fails,
\* and the suspended handler runs to its end.
Resolves(i) ==
    \/ \E data \in LiveLexical : analyzeSucceeded(i, data)
    \/ \E data \in ServiceFailures : analyzeFailed(i, data)
    \/ \E m \in TransportFailures : analyzeThrew(i, m)
    \/ \E data \in LiveCompile :
          Len(timers) + 2 <= MaxTimers /\ compileSucceeded(i, data)
    \/ \E data \in ServiceFailures : compileFailed(i, data)
    \/ \E m \in TransportFailures : compileThrew(i, m)

\* The promise of the request named id settles.
Delivery(id) ==
    \E i \in 1..Len(inflight) : inflight[i].id = id /\ Resolves(i)

NextFollow ==
    \/ \E s \in FollowSources : setInput(s)
    \/ analyzeLexical
    \/ compile
    \/ \E i \in 1..Len(inflight) : Resolves(i)
    \/ timerFired
    \/ reset

SpecFollow == InitFollow /\ [][NextFollow]_vars

\* The same with one source text, and with every fetch settling: the service
\* answers it, or the transport fails.
LiveSources == {SrcSum}

NextLive ==
    \/ \E s \in LiveSources : setInput(s)
    \/ analyzeLexical
    \/ compile
    \/ \E i \in 1..Len(inflight) : Resolves(i)
    \/ timerFired
    \/ reset

SpecLive ==
    /\ InitFollow
    /\ [][NextLive]_vars
    /\ \A id \in 1..MaxInFlight : WF_vars(Delivery(id))

-----------------------------------------------------------------------------
(* The controller with the deferred geometry passes of two compiles        *)
(* pending together.                                                       *)

MaxOverlayTimers == 4

OverlaySources == {SrcSum}

OverlayLexical == {LexSum}

NextOverlay ==
    \/ \E s \in OverlaySources : setInput(s)
    \/ analyzeLexical
    \/ \E i \in 1..Len(inflight), data \in OverlayLexical : analyzeSucceeded(i, data)
    \/ compile
    \/ \E i \in 1..Len(inflight), data \in CompileResults :
          Len(timers) + 2 <= MaxOverlayTimers /\ compileSucceeded(i, data)
    \/ timerFired
    \/ reset

SpecOverlay == Init /\ [][NextOverlay]_vars

-----------------------------------------------------------------------------
(* Claims.                                                                 *)

Failures == {"analyzeFailed", "analyzeThrew"}

CompileFailures == {"compileFailed", "compileThrew"}

\* C1: a compile() that runs while the pipeline is Idle (no analyze sent
\* since the start or the last reset has succeeded) sends no request and
\* leaves the pipeline Idle.
C1_IdleCompileRejected ==
    lastOp.op = "compile" /\ lastOp.from = "Idle"
        => lastOp.sent = <<>> /\ phase = "Idle"

\* C2: after a failed analyze (success: false, or a transport failure) that
\* ran without another handler in between, the seven displayed artifacts are
\* what they were before analyze() was invoked.
C2_FailedAnalyzeKeepsArtifacts ==
    lastOp.op \in Failures => Artifacts = lastOp.snap[1].artifacts

\* C3: when the required inputs an analyze derives are empty, the type
\* prompts are hidden, and a compile sent while they are hidden (the latest
\* analyze derived none) carries an empty type table.
C3_NoInputsEmptyTypeTable ==
    /\ lastOp.op = "analyzeSucceeded"
       /\ inputVariables(lastOp.data[1].symbol_table, codeInput) = <<>>
           => typeSectionDisplay = "none"
    /\ lastOp.op = "compile" /\ typeSectionDisplay = "none"
           => lastOp.sent[1].type_table = <<>>

\* C4: right after a compile response is applied all seven artifacts are
\* those of that response, and in every state the artifacts that only a
\* compile displays are either all placeholders or all of one response.
C4_CompileReplacesAtomically ==
    /\ lastOp.op = "compileSucceeded"
        => /\ CompileOnly(lastOp.data[1])
           /\ tokensOutput.spans =
                [i \in 1..Len(lastOp.data[1].lexical.tokens) |->
                    <<lastOp.data[1].lexical.tokens[i].type,
                      lastOp.data[1].lexical.tokens[i].original>>]
           /\ [i \in 1..Len(symbolTableBody) |-> symbolTableBody[i][1]]
                = Keys(lastOp.data[1].lexical.symbol_table)
    /\ \/ /\ syntaxTree.placeholder /\ semanticTree.placeholder
          /\ icgOutput = IcgPlaceholder
          /\ optimizedOutput = OptimizedPlaceholder
          /\ assemblyOutput = AssemblyPlaceholder
       \/ \E data \in CompileResults : CompileOnly(data)

\* Witness of C4: a compile response has been applied over the artifacts
\* of another one, which were on display.
C4_Witness ==
    /\ lastOp.op = "compileSucceeded"
    /\ lastOp.prev = <<CompSum>>
    /\ lastOp.data = <<CompA>>

\* What a successful analyze response puts on display and in store.
ShowsLexical(data) ==
    /\ ~tokensOutput.placeholder
    /\ Len(tokensOutput.spans) = Len(data.tokens)
    /\ \A i \in 1..Len(data.tokens) :
          tokensOutput.spans[i] = <<data.tokens[i].type, data.tokens[i].original>>
    /\ Len(symbolTableBody) = Len(data.symbol_table)
    /\ \A i \in 1..Len(data.symbol_table) :
          symbolTableBody[i] = <<data.symbol_table[i].name, data.symbol_table[i].id>>
    /\ currentSymbolTable = data.symbol_table

\* C5: once two overlapping analyze requests have both resolved
\* successfully, the displayed tokens, the displayed symbol table and the
\* stored symbol table are those of the response that completed last,
\* whichever request was sent first.
C5_LastCompletedAnalyzeWins ==
    lastOp.op = "analyzeSucceeded" /\ lastOp.ovl # "none"
        => ShowsLexical(lastOp.data[1])

\* Witness of C5: the request sent first completed last, with a response
\* different from the one of the request sent second.
C5_Witness ==
    /\ lastOp.op = "analyzeSucceeded"
    /\ lastOp.ovl = "issuedBefore"
    /\ lastOp.prev = <<LexSum>>
    /\ lastOp.data = <<LexA>>

\* C6: right after reset() the source input is empty, the stored symbol
\* table is empty, the type prompts are empty and hidden, the compile action
\* is disabled, the seven views show their placeholder and no error shows.
C6_ResetYieldsIdle ==
    lastOp.op = "reset"
        => /\ codeInput = <<>>
           /\ currentSymbolTable = <<>>
           /\ typeInputs = <<>>
           /\ typeSectionDisplay = "none"
           /\ compileDisabled
           /\ tokensOutput = TokensPlaceholder
           /\ symbolTableBody = <<>>
           /\ syntaxTree = TreePlaceholder
           /\ semanticTree = TreePlaceholder
           /\ icgOutput = IcgPlaceholder
           /\ optimizedOutput = OptimizedPlaceholder
           /\ assemblyOutput = AssemblyPlaceholder
           /\ errorDisplay.display = "none"
           /\ phase = "Idle"

\* Witness of C6: reset() has run on a compiled pipeline.
C6_Witness == lastOp.op = "reset" /\ lastOp.from = "Compiled"

\* C7: analyze() on a source that is empty after trimming shows an error,
\* sends nothing to the service and changes neither the compile-enabled
\* flag, the stored symbol table, the type prompts nor any artifact.
C7_EmptySourceRejected ==
    [][lastOp'.op \in {"analyze", "analyzeRejected"} /\ Trim(codeInput) = <<>>
          => /\ lastOp'.op = "analyzeRejected"
             /\ lastOp'.sent = <<>>
             /\ inflight' = inflight
             /\ Frame' = Frame
             /\ errorDisplay'.display = "block"]_vars

\* Witness of C7: a whitespace-only source has been rejected while tokens of
\* an earlier analyze were on display.
C7_Witness ==
    /\ lastOp.op = "analyzeRejected"
    /\ codeInput = SrcBlank
    /\ ~tokensOutput.placeholder
    /\ ~compileDisabled

\* C8: after a failed compile (success: false, or a transport failure) the
\* artifacts, the stored symbol table, the type prompts, the compile-enabled
\* flag and the phase are what they were before the failure was applied and,
\* when no other handler ran in between, before compile() was invoked.
C8_FailedCompileKeepsAll ==
    lastOp.op \in CompileFailures
        => Frame = lastOp.snap[1] /\ errorDisplay.display = "block"

\* Witness of C8: a compile failed right after it was invoked, with the
\* artifacts of an earlier successful compile on display.
C8_Witness ==
    /\ lastOp.op \in CompileFailures
    /\ phase = "Compiled"
    /\ \E data \in CompileResults : CompileOnly(data)
    /\ typeInputs # <<>>

\* C9: right after a successful analyze response is applied the compile
\* action is enabled, the stored symbol table, the displayed tokens and the
\* displayed symbol table are those of the response, and the type prompts
\* are the ones derived from the new symbol table.
C9_AnalyzeReplacesAll ==
    lastOp.op = "analyzeSucceeded"
        => /\ ~compileDisabled
           /\ ShowsLexical(lastOp.data[1])
           /\ LET names == inputVariables(lastOp.data[1].symbol_table, codeInput)
              IN  /\ typeInputs = [i \in 1..Len(names) |->
                                     [name |-> names[i], value |-> "int"]]
                  /\ typeSectionDisplay = (IF names = <<>> THEN "none" ELSE "block")

\* The position of name in names, 0 when it does not occur.
PositionOf(name, names) ==
    IF \E k \in 1..Len(names) : names[k] = name
    THEN CHOOSE k \in 1..Len(names) : names[k] = name
    ELSE 0

\* C10: requiredInputs(symbolTable, sourceText) is the sequence of the
\* table's names in iteration order with the assigned variable (the trimmed
\* text before the first '=') taken out: it never holds the assigned
\* variable and neither drops nor reorders another name.
C10_RequiredInputsExact ==
    call # <<>> /\ call.done
        => LET names == [i \in 1..Len(call.symbolTable) |-> call.symbolTable[i].name]
               t     == Trim(call.sourceText)
               cut   == IF \E n \in 1..Len(t) : t[n] = "="
                        THEN CHOOSE n \in 1..Len(t) :
                                t[n] = "=" /\ \A m \in 1..(n - 1) : t[m] # "="
                        ELSE Len(t) + 1
               var   == Trim(SubSeq(t, 1, cut - 1))
               k     == PositionOf(var, names)
           IN  /\ \A i \in 1..Len(call.result) : call.result[i] # var
               /\ call.result = IF k = 0 THEN names
                                ELSE SubSeq(names, 1, k - 1)
                                     \o SubSeq(names, k + 1, Len(names))
               /\ call.sourceText = SrcExample
                  /\ names = <<nx, na, nb>> => call.result = <<na, nb>>

\* Witness of C10: the example of the specification.
C10_Witness ==
    /\ call # <<>> /\ call.done
    /\ call.sourceText = SrcExample
    /\ call.symbolTable = <<Entry(nx, 0), Entry(na, 1), Entry(nb, 2)>>
    /\ call.result = <<na, nb>>

\* The float-conversion suffix, as displayValue writes it.
Suffix == " ->float"

\* The pairs of an abstract node and the visual node layout made of it.
RECURSIVE LaidOut(_, _)
LaidOut(tree, rendered) ==
    IF tree = <<>> \/ rendered = <<>> THEN {}
    ELSE LET kids == tree[1].left \o tree[1].right
             made == rendered[1].children
             m    == IF Len(kids) < Len(made) THEN Len(kids) ELSE Len(made)
         IN  {<<tree[1], rendered[1]>>}
             \cup UNION {LaidOut(<<kids[i]>>, <<made[i]>>) : i \in 1..m}

\* The ID nodes with a non-empty original_name, with their visual nodes.
NamedIds ==
    {p \in LaidOut(call.tree, call.container.nodes) :
        p[1].node_type = "ID" /\ p[1].original_name # ""}

\* C11 as stated: for any ID node with a non-empty original_name, in either
\* layout mode and for any type_info, the displayed value equals
\* original_name.
C11_DisplayedValueIsOriginalName ==
    call.stage # "given" => \A p \in NamedIds : p[2].value = p[1].original_name

\* C11 as amended: for any ID node with a non-empty original_name the
\* displayed value is original_name, followed by the float-conversion suffix
\* exactly when annotateCoercion is true and type_info is "int to float";
\* value has no part in it.
C11_DisplayedValueFromOriginalName ==
    call.stage # "given"
        => \A p \in NamedIds :
              p[2].value =
                 IF call.annotateCoercion /\ p[1].type_info = "int to float"
                 THEN p[1].original_name \o Suffix
                 ELSE p[1].original_name

\* Witness of C11: an ID root named x, coerced, laid out in semantic mode.
C11_Witness ==
    /\ call.stage = "rendered"
    /\ call.annotateCoercion
    /\ call.tree # <<>>
    /\ call.tree[1].node_type = "ID"
    /\ call.tree[1].original_name = "x"
    /\ call.tree[1].type_info = "int to float"
    /\ call.container.nodes[1].value = "x ->float"

\* C12: every node of a laid-out tree carries the "coerced" tag and the
\* float-conversion suffix if and only if annotateCoercion is true and its
\* type_info is "int to float"; otherwise it carries neither.
C12_CoercionMarkedIff ==
    call.stage # "given"
        => \A p \in LaidOut(call.tree, call.container.nodes) :
              LET marked == call.annotateCoercion /\ p[1].type_info = "int to float"
              IN  /\ "coerced" \in p[2].class <=> marked
                  /\ marked => p[2].value \in {p[1].value \o Suffix,
                                               p[1].original_name \o Suffix}
                  /\ ~marked => p[2].value \in {p[1].value, p[1].original_name}

\* Witness of C12: in semantic mode a leaf two levels below the root is
\* marked, while the root, whose type_info is another one, is not.
C12_Witness ==
    /\ call.stage = "rendered"
    /\ call.annotateCoercion
    /\ call.tree # <<>>
    /\ call.tree[1].type_info = "float to int"
    /\ "coerced" \notin call.container.nodes[1].class
    /\ Len(call.container.nodes[1].children) = 2
    /\ Len(call.container.nodes[1].children[2].children) = 2
    /\ "coerced" \in call.container.nodes[1].children[2].children[2].class
    /\ "coerced" \notin call.container.nodes[1].children[2].children[1].class

\* The number of non-null left and right links of a tree.
RECURSIVE Links(_)
Links(tree) ==
    IF tree = <<>> THEN 0
    ELSE Len(tree[1].left) + Len(tree[1].right)
         + Links(tree[1].left) + Links(tree[1].right)

\* The tree of the specification's example.
FourEdgeTree ==
    <<Node("ASSIGN", "id1", "", "",
           <<Leaf("ID", "id2", "a", "int to float")>>,
           <<Node("OP", "+", "", "",
                  <<Leaf("NUMBER", "1", "", "")>>,
                  <<Leaf("NUMBER", "2", "", "int to float")>>)>>)>>

\* C13: the geometry pass on a rendered tree emits one edge per link of the
\* abstract tree: as many edges as non-null left and right links, each from
\* a box to the box of a direct child, no edge twice, the edges of one
\* parent in child order; 4 edges for the example tree.
C13_OneEdgePerLink ==
    call.stage = "drawn"
        => /\ Len(call.container.svg) = 1
           /\ LET edges == call.container.svg[1]
              IN  /\ Len(edges) = Links(call.tree)
                  /\ \A k \in 1..Len(edges) :
                        /\ Len(edges[k][2]) = Len(edges[k][1]) + 1
                        /\ SubSeq(edges[k][2], 1, Len(edges[k][1])) = edges[k][1]
                  /\ \A j, k \in 1..Len(edges) :
                        j < k /\ edges[j][1] = edges[k][1]
                            => edges[j][2][Len(edges[j][2])]
                                 < edges[k][2][Len(edges[k][2])]
                  /\ call.tree = FourEdgeTree => Len(edges) = 4

\* Witness of C13: the connectors of the example tree have been drawn.
C13_Witness ==
    /\ call.stage = "drawn"
    /\ call.tree = FourEdgeTree
    /\ call.container.svg = <<<< <<<<>>, <<1>>>>, <<<<>>, <<2>>>>,
                                 <<<<2>>, <<2, 1>>>>, <<<<2>>, <<2, 2>>>> >>>>

InFlight(id) == \E i \in 1..Len(inflight) : inflight[i].id = id

\* The handler that ran last applied a response: its artifacts are on
\* display, or an error message is shown.
Applied ==
    \/ lastOp.op = "analyzeSucceeded" /\ ShowsLexical(lastOp.data[1])
    \/ /\ lastOp.op = "compileSucceeded"
       /\ CompileOnly(lastOp.data[1])
       /\ tokensOutput = displayTokens(lastOp.data[1].lexical.tokens)
    \/ /\ lastOp.op \in Failures \cup CompileFailures
       /\ errorDisplay.display = "block"
       /\ errorDisplay.text # ""

\* C14: under fair delivery of responses every request in flight eventually
\* leaves the requests in flight, whatever requests and resets follow it,
\* and a request leaves them only in a step that applies its response: its
\* artifacts are displayed or an error message is shown.
C14_EveryRequestIsApplied ==
    /\ \A id \in 1..MaxInFlight : InFlight(id) ~> ~InFlight(id)
    /\ [][\A id \in 1..MaxInFlight :
              InFlight(id) /\ ~InFlight(id)' => Applied']_vars

\* Witness of C14: the response of an analyze sent before a reset has been
\* applied after the reset, with a request sent after the reset in flight.
C14_Witness ==
    /\ lastOp.op = "analyzeSucceeded"
    /\ phase = "Idle"
    /\ ShowsLexical(lastOp.data[1])
    /\ Len(inflight) = 1
    /\ ~inflight[1].stale

\* The analysis the service returns for a source text.
AnalysisOf(code) == IF code = Trim(SrcSum) THEN LexSum ELSE LexA

\* C15: when the response applied is the analysis of the source submitted in
\* its request, and that source requires inputs, the type prompts are those
\* derived from the response's symbol table and the submitted source: the
\* assigned variable of the submitted source is the one left out, also when
\* the source input has been edited since the request was sent.
C15_AssignedVarOfSubmittedSource ==
    lastOp.op = "analyzeSucceeded"
    /\ lastOp.data[1] = AnalysisOf(lastOp.sent[1].code)
        => LET names == inputVariables(lastOp.data[1].symbol_table,
                                       lastOp.sent[1].code)
           IN  names # <<>>
                  => /\ typeSectionDisplay = "block"
                     /\ [k \in 1..Len(typeInputs) |-> typeInputs[k].name] = names

\* The (parent, direct child) pairs of an abstract tree, named as the boxes
\* of the rendered tree are: parents before their descendants, the left
\* child before the right one.
RECURSIVE ParentChildPairs(_, _)
ParentChildPairs(tree, path) ==
    IF tree = <<>> THEN <<>>
    ELSE LET kids == tree[1].left \o tree[1].right
             own  == [i \in 1..Len(kids) |-> <<path, path \o <<i>>>>]
             below[i \in 0..Len(kids)] ==
                 IF i = 0 THEN <<>>
                 ELSE below[i - 1] \o ParentChildPairs(<<kids[i]>>, path \o <<i>>)
         IN  own \o below[Len(kids)]

\* The abstract trees on display: those of one compile response, or none.
ShownTrees ==
    IF Compiled = <<>> THEN [syntax |-> <<>>, semantic |-> <<>>]
    ELSE [syntax |-> Compiled[1].syntax_tree, semantic |-> Compiled[1].semantic_tree]

\* C16: whenever a tree container holds a connector overlay, the edges of
\* the overlay are the (parent, direct child) pairs of the tree rendered in
\* the container now (none for the placeholder); and a rendered tree without
\* overlay has its geometry pass still pending, so the pass comes after the
\* render.
C16_OverlayMatchesRenderedTree ==
    /\ syntaxTree.svg # <<>>
          => syntaxTree.svg[1] = ParentChildPairs(ShownTrees.syntax, <<>>)
    /\ semanticTree.svg # <<>>
          => semanticTree.svg[1] = ParentChildPairs(ShownTrees.semantic, <<>>)
    /\ ~syntaxTree.placeholder /\ syntaxTree.svg = <<>>
          => \E k \in 1..Len(timers) : timers[k] = "syntax"
    /\ ~semanticTree.placeholder /\ semanticTree.svg = <<>>
          => \E k \in 1..Len(timers) : timers[k] = "semantic"

\* Witness of C16: the pass scheduled by an earlier compile has drawn the
\* connectors of the tree a later compile rendered, whose own pass is still
\* pending.
C16_Witness ==
    /\ lastOp.op = "timer"
    /\ Len(timers) = 3
    /\ Compiled = <<CompA>>
    /\ syntaxTree.svg = << << <<<<>>, <<1>>>>, <<<<>>, <<2>>>> >> >>

\* C17: a tree container never holds more than one connector overlay, and a
\* geometry pass on a container that holds an overlay leaves the edge
\* sequence as it was.
C17_OverlayReplaced ==
    /\ [](Len(syntaxTree.svg) <= 1 /\ Len(semanticTree.svg) <= 1)
    /\ [][timers # <<>> /\ timers' = Tail(timers)
             => /\ Head(timers) = "syntax" /\ syntaxTree.svg # <<>>
                    => syntaxTree'.svg = syntaxTree.svg
                /\ Head(timers) = "semantic" /\ semanticTree.svg # <<>>
                    => semanticTree'.svg = semanticTree.svg]_vars

\* Witness of C17: the passes of two compiles have all run after the second
\* render; the last one found the overlay of the one before it.
C17_Witness ==
    /\ lastOp.op = "timer"
    /\ lastOp.prev # <<>>
    /\ timers = <<>>
    /\ Len(semanticTree.svg) = 1
    /\ Len(semanticTree.svg[1]) = 4

\* C18: while the pipeline is Idle (no analyze triggered since the start or
\* the last reset has succeeded) the compile action is disabled, the stored
\* symbol table and the type prompts are empty, and the token and
\* symbol-table views show their placeholder, whatever responses arrive.
C18_StaysIdleAfterReset ==
    phase = "Idle"
        => /\ compileDisabled
           /\ currentSymbolTable = <<>>
           /\ typeInputs = <<>>
           /\ tokensOutput = TokensPlaceholder
           /\ symbolTableBody = <<>>

\* C19: right after a successful analyze or compile response is applied, no
\* error message of a failed request is displayed (the message of a
\* validation that ran while the request was in flight is left aside).
C19_NoErrorAfterSuccess ==
    lastOp.op \in {"analyzeSucceeded", "compileSucceeded"}
        => \/ errorDisplay.display = "none"
           \/ errorDisplay = showError("Please enter some code to analyze.")

====
